---- MODULE Spec2Model ----
(***************************************************************************)
(* A model of KoboldAI's story register (structures.py) and of the logits  *)
(* warper pipeline of the basic Huggingface backend                        *)
(* (modeling/inference_models/basic_hf/class.py).                          *)
(***************************************************************************)
EXTENDS Integers, Sequences, FiniteSets, TLC

\* ------------------------------------------------------------------ bounds
\* Chunk ids range over 0..MaxId; append is cut off once next_id passes MaxId.
MaxId == 2
\* Longest sequence of (id, text) pairs handed to the constructor.
MaxInit == 2

Ids == 0..MaxId
Texts == {"a", "b"}

\* The value get_first_key / get_last_key return for an empty register.
EmptyKey == -1

\* ---------------------------------------------------- collections.OrderedDict
\* An OrderedDict is a sequence of entries [k, v] with distinct keys, in
\* insertion order.
KeysOf(d) == {d[i].k : i \in 1..Len(d)}

HasKey(d, k) == k \in KeysOf(d)

IndexOf(d, k) == CHOOSE i \in 1..Len(d) : d[i].k = k

\* dict[k]
DictGet(d, k) == d[IndexOf(d, k)].v

\* dict[k] = v: a live key keeps its place, a new key goes last.
DictSetItem(d, k, v) ==
    IF HasKey(d, k)
    THEN [d EXCEPT ![IndexOf(d, k)] = [k |-> k, v |-> v]]
    ELSE Append(d, [k |-> k, v |-> v])

\* del dict[k], for a live key.
DictDelItem(d, k) == SelectSeq(d, LAMBDA e : e.k # k)

\* OrderedDict(sequence): the pairs are inserted left to right.
RECURSIVE DictFromSeq(_)
DictFromSeq(s) ==
    IF s = <<>> THEN <<>>
    ELSE DictSetItem(DictFromSeq(SubSeq(s, 1, Len(s) - 1)),
                     s[Len(s)][1], s[Len(s)][2])

\* ------------------------------------------------------ KoboldStoryRegister
VARIABLES
    items,         \* the OrderedDict's entries, in insertion order
    next_id,       \* self.__next_id
    op,            \* the last call made on the register
    arg,           \* its arguments
    ret,           \* <<value>> when it returned a value, <<>> otherwise
    err,           \* the exception it raised, "" when it returned
    pre_items,     \* items before the last call
    pre_next_id,   \* next_id before the last call
    init_next_id,  \* next_id as the constructor left it
    append_keys,   \* the key each append stored its text under, in call order
    ever_keys      \* every id that was a key before the last call

regvars == <<items, next_id, op, arg, ret, err, pre_items, pre_next_id>>

\* The history of a run, kept beside the register: which key each append
\* used and which ids have been keys so far.
histvars == <<init_next_id, append_keys, ever_keys>>

\* The sequences the constructor is called with.
InitSeqs == UNION {[1..n -> Ids \X Texts] : n \in 0..MaxInit}

\* __init__: next_id is the number of pairs handed in.
InitNextId(seq) == Len(seq)

Construct(seq) ==
    /\ items = DictFromSeq(seq)
    /\ next_id = InitNextId(seq)
    /\ op = "init"
    /\ arg = <<>>
    /\ ret = <<>>
    /\ err = ""
    /\ pre_items = <<>>
    /\ pre_next_id = 0
    /\ init_next_id = InitNextId(seq)
    /\ append_keys = <<>>
    /\ ever_keys = {}

RegInit == \E seq \in InitSeqs : Construct(seq)

\* What every call records about itself.
Called(name, a, r, e) ==
    /\ op' = name
    /\ arg' = a
    /\ ret' = r
    /\ err' = e
    /\ pre_items' = items
    /\ pre_next_id' = next_id

\* A variant of the key choice: the number of live entries.
AppendKey_Count(d, nid) == Len(d)

\* The key append stores under.
AppendKey(d, nid) == nid

\* increment_id
IncrementId(nid) == nid + 1

\* append(v)
Append_(v) ==
    /\ next_id <= MaxId
    /\ items' = DictSetItem(items, AppendKey(items, next_id), v)
    /\ next_id' = IncrementId(next_id)
    /\ Called("append", <<v>>, <<>>, "")

\* A variant of popitem that takes the entry with the highest key.
PopIndex_MaxKey(d) == CHOOSE i \in 1..Len(d) : \A j \in 1..Len(d) : d[j].k <= d[i].k

\* popitem() takes the entry that is last in insertion order.
PopIndex(d) == Len(d)

\* A variant of the empty case that hands back an empty text.
PopEmpty_Silent == [ret |-> <<"">>, err |-> ""]

\* popitem() on an empty OrderedDict raises KeyError.
PopEmpty == [ret |-> <<>>, err |-> "KeyError"]

\* pop()
Pop ==
    /\ IF Len(items) = 0
       THEN /\ Called("pop", <<>>, PopEmpty.ret, PopEmpty.err)
            /\ UNCHANGED items
       ELSE /\ Called("pop", <<>>, <<items[PopIndex(items)].v>>, "")
            /\ items' = [i \in 1..(Len(items) - 1) |->
                            IF i < PopIndex(items) THEN items[i] ELSE items[i + 1]]
    /\ UNCHANGED next_id

\* A variant that answers with the newest key.
FirstKey_Last(d) == IF Len(d) = 0 THEN EmptyKey ELSE d[Len(d)].k

\* get_first_key (a property)
FirstKey(d) == IF Len(d) = 0 THEN EmptyKey ELSE d[1].k

\* get_last_key()
LastKey(d) == IF Len(d) = 0 THEN EmptyKey ELSE d[Len(d)].k

GetFirstKey ==
    /\ Called("get_first_key", <<>>, <<FirstKey(items)>>, "")
    /\ UNCHANGED <<items, next_id>>

GetLastKey ==
    /\ Called("get_last_key", <<>>, <<LastKey(items)>>, "")
    /\ UNCHANGED <<items, next_id>>

\* __getitem__(k)
GetItem(k) ==
    /\ IF HasKey(items, k)
       THEN Called("get", <<k>>, <<DictGet(items, k)>>, "")
       ELSE Called("get", <<k>>, <<>>, "KeyError")
    /\ UNCHANGED <<items, next_id>>

\* A variant of set that keeps next_id above the key it wrote.
SetItemNextId_Bump(nid, k) == IF k >= nid THEN k + 1 ELSE nid

\* __setitem__ leaves next_id alone.
SetItemNextId(nid, k) == nid

\* __setitem__(k, v)
SetItem(k, v) ==
    /\ items' = DictSetItem(items, k, v)
    /\ next_id' = SetItemNextId(next_id, k)
    /\ Called("set", <<k, v>>, <<>>, "")

\* del register[k] (OrderedDict.__delitem__)
DelItem(k) ==
    /\ IF HasKey(items, k)
       THEN /\ items' = DictDelItem(items, k)
            /\ Called("del", <<k>>, <<>>, "")
       ELSE /\ UNCHANGED items
            /\ Called("del", <<k>>, <<>>, "KeyError")
    /\ UNCHANGED next_id

\* get_next_id()
GetNextId ==
    /\ Called("get_next_id", <<>>, <<next_id>>, "")
    /\ UNCHANGED <<items, next_id>>

\* set_next_id(x)
SetNextId(x) ==
    /\ next_id' = x
    /\ Called("set_next_id", <<x>>, <<>>, "")
    /\ UNCHANGED items

\* ------------------------------------------------- state of the other parts
VARIABLES
    model_state,   \* self.model / self.tokenizer: absent, loaded or unloaded
    badwordsids,   \* self.badwordsids
    configured,    \* the bad words the last load configured
    max_length,    \* utils.koboldai_vars.max_length
    rng,           \* torch's random source: its seed and the draws made since
    gpc,           \* where a _raw_generate call is: idle or seeded
    gcall,         \* the last _raw_generate call: its arguments and its outcome
    seen_single    \* a single_line call has reached the decode loop

genvars == <<model_state, badwordsids, configured, max_length, rng, gpc, gcall,
             seen_single>>

VARIABLES
    now,           \* the time, in ticks
    deb_t,         \* debounced.t: the timer it holds, 0 while it has none
    timers,        \* every Timer made so far
    thr,           \* where each calling thread is in debounced
    calls,         \* every call of the debounced function, in order
    runs           \* every run of the wrapped function, in order

debvars == <<now, deb_t, timers, thr, calls, runs>>

VARIABLES
    trim_txt,      \* the text handed to trimincompletesentence
    trim_ret,      \* what it returned
    trim_pc        \* ready or done

trimvars == <<trim_txt, trim_ret, trim_pc>>

\* ------------------------------------------------------- the warper pipeline
\* Longest sampler_order.
MaxOrder == 2
\* Most registered logits processors.
MaxProcs == 2

\* The identifiers sampler_order may hold.
SamplerIds == {"temperature", "top_k", "rep_pen"}

\* warpers.Warper.from_id
FromId(sid) ==
    CASE sid = "temperature" -> "Temperature"
      [] sid = "top_k" -> "TopK"
      [] sid = "rep_pen" -> "RepetitionPenalty"

Warpers == {FromId(sid) : sid \in SamplerIds}

\* What self.logits_processors may hold.
Processors == {"phrase_bias", "probability_visualizer"}

\* The raw score tensors a call may be handed.
RawScores == {"s0", "s1"}

VARIABLES
    sampler_order,      \* utils.koboldai_vars.sampler_order
    valid,              \* the warpers whose value_is_valid() is true
    logits_processors,  \* self.logits_processors, in registration order
    ppc,                \* where the call is: idle, warpers, processors, returned, raised
    idx,                \* position of the loop the call is in
    raw,                \* the scores the call was handed
    scores,             \* the local variable scores
    warped,             \* what _apply_warpers returned
    result,             \* what __call__ returned
    blame,              \* the stage an AssertionError names
    plog                \* every stage applied by the call, in order

pipevars == <<sampler_order, valid, logits_processors, ppc, idx, raw, scores,
              warped, result, blame, plog>>

\* A score tensor is the raw tensor it was computed from, the stages it
\* went through and whether it still has the raw tensor's shape; NoScores is
\* None.
Tensor(base, trace) ==
    [is_none |-> FALSE, base |-> base, trace |-> trace, same_shape |-> TRUE]

NoScores == [is_none |-> TRUE, base |-> "", trace |-> <<>>, same_shape |-> TRUE]

\* Warper.value_is_valid()
ValueIsValid(w) == w \in valid

\* A stage's answer: a tensor changed by the stage and shaped like its input,
\* a tensor of another shape, or None.
StageOutcomes == {"tensor", "reshaped", "none"}

\* What a stage named st makes of the tensor s.
StageResult(st, s, outcome) ==
    CASE outcome = "none" -> NoScores
      [] outcome = "reshaped" ->
            [s EXCEPT !.trace = Append(s.trace, st), !.same_shape = FALSE]
      [] OTHER -> [s EXCEPT !.trace = Append(s.trace, st)]

\* warper.torch(scores) and warper.torch(scores, input_ids=input_ids)
WarperTorch(w, s, with_ids, outcome) == StageResult(w, s, outcome)

\* processor(self, scores=scores, input_ids=input_ids)
ProcessorCall(p, s, outcome) == StageResult(p, s, outcome)

Orders == UNION {[1..n -> SamplerIds] : n \in 0..MaxOrder}

ProcessorLists == UNION {[1..n -> Processors] : n \in 0..MaxProcs}

PipeInit ==
    /\ sampler_order = <<>>
    /\ valid = {}
    /\ logits_processors = <<>>
    /\ ppc = "idle"
    /\ idx = 0
    /\ raw = NoScores
    /\ scores = NoScores
    /\ warped = NoScores
    /\ result = NoScores
    /\ blame = ""
    /\ plog = <<>>

\* KoboldLogitsWarperList.__call__ is entered: the settings are read
\* (warpers.update_settings) and _apply_warpers starts on the raw scores.
\* A call keeps nothing of the call before it, so a run follows one call.
PipeCall(order, val, procs, base) ==
    /\ ppc = "idle"
    /\ sampler_order' = order
    /\ valid' = val
    /\ logits_processors' = procs
    /\ ppc' = "warpers"
    /\ idx' = 1
    /\ raw' = Tensor(base, <<>>)
    /\ scores' = Tensor(base, <<>>)
    /\ warped' = NoScores
    /\ result' = NoScores
    /\ blame' = ""
    /\ plog' = <<>>
    /\ UNCHANGED <<regvars, histvars, genvars, debvars, trimvars>>

\* A variant that never skips a warper.
SkipWarper_Never(w) == FALSE

\* if not warper.value_is_valid(): continue
SkipWarper(w) == ~ValueIsValid(w)

\* Only RepetitionPenalty is handed the input tokens.
NeedsInputIds(w) == w = "RepetitionPenalty"

\* A variant of the loop's end: it stops after the first identifier.
WarperLoopDone_AfterFirst(order, i) == i > 1 \/ i > Len(order)

\* for sid in sampler_order: ended
WarperLoopDone(order, i) == i > Len(order)

\* assert scores is not None, after a warper
WarperAssertFails(out) == out.is_none

\* A variant of the processors' assert that lets None through.
ProcessorAssertFails_Never(out) == FALSE

\* assert scores is not None, after a processor
ProcessorAssertFails(out) == out.is_none

\* One turn of the loop over sampler_order in _apply_warpers.
WarperStep(outcome) ==
    /\ ppc = "warpers"
    /\ ~WarperLoopDone(sampler_order, idx)
    /\ LET w == FromId(sampler_order[idx])
           out == WarperTorch(w, scores, NeedsInputIds(w), outcome)
       IN  IF SkipWarper(w)
           THEN /\ outcome = "tensor"
                /\ idx' = idx + 1
                /\ UNCHANGED <<scores, plog, ppc, blame>>
           ELSE /\ scores' = out
                /\ plog' = Append(plog, [kind |-> "warper", stage |-> w,
                                         with_ids |-> NeedsInputIds(w),
                                         in |-> scores, out |-> out])
                /\ IF WarperAssertFails(out)
                   THEN /\ ppc' = "raised"
                        /\ blame' = w
                        /\ UNCHANGED idx
                   ELSE /\ idx' = idx + 1
                        /\ UNCHANGED <<ppc, blame>>
    /\ UNCHANGED <<sampler_order, valid, logits_processors, raw, warped, result>>
    /\ UNCHANGED <<regvars, histvars, genvars, debvars, trimvars>>

\* _apply_warpers returns scores; __call__ goes on to the processors.
WarpersReturn ==
    /\ ppc = "warpers"
    /\ WarperLoopDone(sampler_order, idx)
    /\ warped' = scores
    /\ ppc' = "processors"
    /\ idx' = 1
    /\ UNCHANGED <<sampler_order, valid, logits_processors, raw, scores, result,
                   blame, plog>>
    /\ UNCHANGED <<regvars, histvars, genvars, debvars, trimvars>>

\* One turn of the loop over self.logits_processors in __call__.
ProcessorStep(outcome) ==
    /\ ppc = "processors"
    /\ idx <= Len(logits_processors)
    /\ LET p == logits_processors[idx]
           out == ProcessorCall(p, scores, outcome)
       IN  /\ scores' = out
           /\ plog' = Append(plog, [kind |-> "processor", stage |-> p,
                                    with_ids |-> TRUE,
                                    in |-> scores, out |-> out])
           /\ IF ProcessorAssertFails(out)
              THEN /\ ppc' = "raised"
                   /\ blame' = p
                   /\ UNCHANGED idx
              ELSE /\ idx' = idx + 1
                   /\ UNCHANGED <<ppc, blame>>
    /\ UNCHANGED <<sampler_order, valid, logits_processors, raw, warped, result>>
    /\ UNCHANGED <<regvars, histvars, genvars, debvars, trimvars>>

\* return scores
PipeReturn ==
    /\ ppc = "processors"
    /\ idx > Len(logits_processors)
    /\ result' = scores
    /\ ppc' = "returned"
    /\ UNCHANGED <<sampler_order, valid, logits_processors, idx, raw, scores,
                   warped, blame, plog>>
    /\ UNCHANGED <<regvars, histvars, genvars, debvars, trimvars>>

\* ------------------------------------------------------------ _raw_generate
\* Longest prompt, in tokens.
MaxPrompt == 2
\* Largest max_new.
MaxNew == 2
\* Largest utils.koboldai_vars.max_length.
MaxCap == 3
\* Most draws from the random source between two seedings.
MaxDraws == 2

Tokens == {"t"}

TokenSeqs == UNION {[1..n -> Tokens] : n \in 0..MaxPrompt}

\* prompt_tokens: a list of token ids, or a tensor already built, either of
\* one dimension (tokens) or of two (one row of tokens).
Prompts == [kind : {"list", "tensor1d", "tensor2d"}, toks : TokenSeqs]

Seeds == {1, 2}

\* seed: None is <<>>.
SeedArgs == {<<>>} \cup {<<sd>> : sd \in Seeds}

BatchCounts == {1, 2}

\* The bad words a load may configure; a word stands for its token ids.
BadWordConfigs == {<<>>, <<"[">>, <<"[", "]">>}

\* self.tokenizer.encode("\n")
NewlineWord == "newline"

Min(a, b) == IF a <= b THEN a ELSE b

\* len(prompt_tokens): the length of a list, the first dimension of a tensor.
PyLen(p) == IF p.kind = "tensor2d" THEN 1 ELSE Len(p.toks)

\* The number of tokens of the prompt.
NumTokens(p) == Len(p.toks)

\* gen_in: a list becomes a tensor of one row, a tensor is taken as it is.
GenIn(p) == IF p.kind = "list" THEN [kind |-> "tensor2d", toks |-> p.toks] ELSE p

\* max_length=min(len(prompt_tokens) + max_new, utils.koboldai_vars.max_length)
MaxLengthArg(p, max_new, cap) == Min(PyLen(p) + max_new, cap)

\* additional_bad_words_ids
AdditionalBadWords(single_line) ==
    IF single_line THEN <<NewlineWord>> ELSE <<>>

\* bad_words_ids=self.badwordsids + additional_bad_words_ids
EffectiveBadWords(bw, add) == bw \o add

\* A variant that extends self.badwordsids in place.
BadWordsAfterCall_Extend(bw, add) == bw \o add

\* self.badwordsids after the call: the sum is a new list.
BadWordsAfterCall(bw, add) == bw

\* torch.manual_seed(seed)
SeedRng(sd) == [seed |-> sd, draws |-> 0]

\* A variant that leaves the random source as it is.
RngAfterSeed_Ignore(r, seed) == r

\* if seed is not None: torch.manual_seed(seed)
RngAfterSeed(r, seed) == IF seed = <<>> THEN r ELSE SeedRng(seed[1])

\* The random source after one more draw.
Draw(r) == [r EXCEPT !.draws = r.draws + 1]

\* What self.model.generate is called with.
DecodeArgs(p, max_new, add, batch_count) ==
    [gen_in |-> GenIn(p),
     do_sample |-> TRUE,
     max_length |-> MaxLengthArg(p, max_new, max_length),
     repetition_penalty |-> 1,
     bad_words_ids |-> EffectiveBadWords(badwordsids, add),
     use_cache |-> TRUE,
     num_return_sequences |-> batch_count]

\* The arguments of a decode loop that was not called.
NoDecodeArgs ==
    [gen_in |-> [kind |-> "none", toks |-> <<>>],
     do_sample |-> FALSE,
     max_length |-> 0,
     repetition_penalty |-> 0,
     bad_words_ids |-> <<>>,
     use_cache |-> FALSE,
     num_return_sequences |-> 0]

\* The decode loop's output: whatever it is, it is decided by the state of
\* the random source and by the arguments.
DecodeOut(r, args) == [rng |-> r, args |-> args]

NoResult ==
    [is_result |-> FALSE, out_batches |-> DecodeOut(SeedRng(0), NoDecodeArgs),
     is_whole_generation |-> FALSE, output_includes_prompt |-> FALSE]

\* GenerationResult(self, out_batches=genout, prompt=prompt_tokens,
\*                  is_whole_generation=False, output_includes_prompt=True)
GenerationResult(genout) ==
    [is_result |-> TRUE, out_batches |-> genout,
     is_whole_generation |-> FALSE, output_includes_prompt |-> TRUE]

NoCall ==
    [prompt |-> [kind |-> "none", toks |-> <<>>], max_new |-> 0,
     single_line |-> FALSE, seed |-> <<>>, batch_count |-> 0,
     model_state |-> "absent", configured |-> <<>>,
     pre_rng |-> SeedRng(0), disturbed |-> FALSE,
     status |-> "none", err |-> "", decode_calls |-> 0,
     decode_args |-> NoDecodeArgs, result |-> NoResult]

GenInit ==
    /\ model_state = "absent"
    /\ badwordsids = <<>>
    /\ configured = <<>>
    /\ max_length \in 1..MaxCap
    /\ rng = SeedRng(0)
    /\ gpc = "idle"
    /\ gcall = NoCall
    /\ seen_single = FALSE

\* _load and _post_load: the model and the tokenizer are set and
\* self.badwordsids is configured.
Load(cfg) ==
    /\ gpc = "idle"
    /\ model_state' = "loaded"
    /\ badwordsids' = cfg
    /\ configured' = cfg
    /\ UNCHANGED <<max_length, rng, gpc, gcall, seen_single>>
    /\ UNCHANGED <<regvars, histvars, pipevars, debvars, trimvars>>

\* unload: self.model and self.tokenizer become None.
Unload ==
    /\ gpc = "idle"
    /\ model_state # "absent"
    /\ model_state' = "unloaded"
    /\ UNCHANGED <<badwordsids, configured, max_length, rng, gpc, gcall, seen_single>>
    /\ UNCHANGED <<regvars, histvars, pipevars, debvars, trimvars>>

\* self.tokenizer.encode needs a tokenizer: on None (or no attribute) it
\* raises AttributeError.
CanEncode(ms) == ms = "loaded"

\* A variant in which the decode loop is reached without a model.
CanDecode_Always(ms) == TRUE

\* self.model.generate needs a model: on None (or no attribute) it raises
\* AttributeError before the decode loop is entered.
CanDecode(ms) == ms = "loaded"

\* _raw_generate up to the seeding: gen_in, additional_bad_words_ids,
\* torch.manual_seed.
GenBegin(p, max_new, single_line, seed, batch_count) ==
    /\ gpc = "idle"
    /\ LET c == [NoCall EXCEPT !.prompt = p, !.max_new = max_new,
                               !.single_line = single_line, !.seed = seed,
                               !.batch_count = batch_count,
                               !.model_state = model_state,
                               !.configured = configured, !.pre_rng = rng]
       IN  IF single_line /\ ~CanEncode(model_state)
           THEN /\ gcall' = [c EXCEPT !.status = "raised", !.err = "AttributeError"]
                /\ UNCHANGED <<rng, gpc>>
           ELSE /\ gcall' = [c EXCEPT !.status = "running"]
                /\ rng' = RngAfterSeed(rng, seed)
                /\ gpc' = "seeded"
    /\ UNCHANGED <<model_state, badwordsids, configured, max_length, seen_single>>
    /\ UNCHANGED <<regvars, histvars, pipevars, debvars, trimvars>>

\* Something else draws from the random source.
RngConsume ==
    /\ rng.draws < MaxDraws
    /\ rng' = Draw(rng)
    /\ gcall' = IF gpc = "seeded" THEN [gcall EXCEPT !.disturbed = TRUE] ELSE gcall
    /\ UNCHANGED <<model_state, badwordsids, configured, max_length, gpc, seen_single>>
    /\ UNCHANGED <<regvars, histvars, pipevars, debvars, trimvars>>

\* What the decode loop does: it returns batches of tokens or it raises.
DecodeOutcomes == {"return", "raise"}

\* _raw_generate from self.model.generate to the GenerationResult.
GenDecode(outcome) ==
    /\ gpc = "seeded"
    /\ gpc' = "idle"
    /\ LET add == AdditionalBadWords(gcall.single_line)
           args == DecodeArgs(gcall.prompt, gcall.max_new, add, gcall.batch_count)
       IN  IF ~CanDecode(model_state)
           THEN /\ outcome = "raise"
                /\ gcall' = [gcall EXCEPT !.status = "raised", !.err = "AttributeError"]
                /\ UNCHANGED <<rng, badwordsids, seen_single>>
           ELSE /\ rng.draws < MaxDraws
                /\ rng' = Draw(rng)
                /\ badwordsids' = BadWordsAfterCall(badwordsids, add)
                /\ seen_single' = (seen_single \/ gcall.single_line)
                /\ gcall' =
                     IF outcome = "raise"
                     THEN [gcall EXCEPT !.status = "raised", !.err = "DecodeError",
                                        !.decode_calls = @ + 1, !.decode_args = args]
                     ELSE [gcall EXCEPT !.status = "returned",
                                        !.decode_calls = @ + 1, !.decode_args = args,
                                        !.result = GenerationResult(DecodeOut(rng, args))]
    /\ UNCHANGED <<model_state, configured, max_length>>
    /\ UNCHANGED <<regvars, histvars, pipevars, debvars, trimvars>>

\* ----------------------------------------------------------------- debounce
\* The wait of the decorator, in ticks of the clock.
DebounceWait == 2
\* The clock stops here.
MaxTime == 4
\* Most calls of the debounced function in a run.
MaxCalls == 3

Threads == {"T1", "T2"}

\* The arguments of a call.
CallArgs == {"x", "y"}

\* debounced.t when the attribute is not set yet.
NoTimer == 0

IdleThread == [pc |-> "idle", args |-> "", err |-> ""]

DebInit ==
    /\ now = 0
    /\ deb_t = NoTimer
    /\ timers = <<>>
    /\ thr = [th \in Threads |-> IdleThread]
    /\ calls = <<>>
    /\ runs = <<>>

\* Timer(wait, call_it): call_it holds the arguments of the call.
NewTimer(a) == [args |-> a, state |-> "created", cancelled |-> FALSE, due |-> 0]

\* A thread calls debounced(*args, **kwargs).
DebCall(th, a) ==
    /\ thr[th].pc = "idle"
    /\ Len(calls) < MaxCalls
    /\ calls' = Append(calls, [time |-> now, args |-> a])
    /\ thr' = [thr EXCEPT ![th] = [pc |-> "cancel", args |-> a, err |-> ""]]
    /\ UNCHANGED <<now, deb_t, timers, runs>>
    /\ UNCHANGED <<regvars, histvars, pipevars, genvars, trimvars>>

\* try: debounced.t.cancel() except AttributeError: pass
DebCancel(th) ==
    /\ thr[th].pc = "cancel"
    /\ timers' = IF deb_t = NoTimer THEN timers
                 ELSE [timers EXCEPT ![deb_t].cancelled = TRUE]
    /\ thr' = [thr EXCEPT ![th].pc = "assign"]
    /\ UNCHANGED <<now, deb_t, calls, runs>>
    /\ UNCHANGED <<regvars, histvars, pipevars, genvars, trimvars>>

\* debounced.t = Timer(wait, call_it)
DebAssign(th) ==
    /\ thr[th].pc = "assign"
    /\ timers' = Append(timers, NewTimer(thr[th].args))
    /\ deb_t' = Len(timers) + 1
    /\ thr' = [thr EXCEPT ![th].pc = "start"]
    /\ UNCHANGED <<now, calls, runs>>
    /\ UNCHANGED <<regvars, histvars, pipevars, genvars, trimvars>>

\* debounced.t.start(): a timer that was started before raises RuntimeError.
DebStart(th) ==
    /\ thr[th].pc = "start"
    /\ IF timers[deb_t].state = "created"
       THEN /\ timers' = [timers EXCEPT ![deb_t].state = "started",
                                        ![deb_t].due = now + DebounceWait]
            /\ thr' = [thr EXCEPT ![th].pc = "idle"]
       ELSE /\ thr' = [thr EXCEPT ![th].pc = "idle", ![th].err = "RuntimeError"]
            /\ UNCHANGED timers
    /\ UNCHANGED <<now, deb_t, calls, runs>>
    /\ UNCHANGED <<regvars, histvars, pipevars, genvars, trimvars>>

\* The timer's thread wakes when the wait is over, or at once when the timer
\* is cancelled, and goes on to the function unless the timer is cancelled.
TimerWake(i) ==
    /\ timers[i].state = "started"
    /\ timers[i].due <= now \/ timers[i].cancelled
    /\ timers' = [timers EXCEPT ![i].state =
                     IF timers[i].cancelled THEN "done" ELSE "firing"]
    /\ UNCHANGED <<now, deb_t, thr, calls, runs>>
    /\ UNCHANGED <<regvars, histvars, pipevars, genvars, trimvars>>

\* call_it: fun(*args, **kwargs)
TimerRun(i) ==
    /\ timers[i].state = "firing"
    /\ runs' = Append(runs, [time |-> now, args |-> timers[i].args,
                             ncalls |-> Len(calls)])
    /\ timers' = [timers EXCEPT ![i].state = "done"]
    /\ UNCHANGED <<now, deb_t, thr, calls>>
    /\ UNCHANGED <<regvars, histvars, pipevars, genvars, trimvars>>

\* Time passes. The steps of a call and of a timer's thread take no time: the
\* clock moves on when no call is under way, no timer whose wait is over is
\* still asleep and no timer is between its wake and its function.
Tick ==
    /\ now < MaxTime
    /\ \A th \in Threads : thr[th].pc = "idle"
    /\ \A i \in 1..Len(timers) :
           /\ ~(timers[i].state = "started" /\ timers[i].due <= now)
           /\ timers[i].state # "firing"
    /\ now' = now + 1
    /\ UNCHANGED <<deb_t, timers, thr, calls, runs>>
    /\ UNCHANGED <<regvars, histvars, pipevars, genvars, trimvars>>

\* --------------------------------------------------- trimincompletesentence
\* Longest text.
MaxLen == 4

Quote == "\""

\* The characters of a text: the three marks that end a sentence, the double
\* quote and a letter.
Chars == {".", "!", "?", Quote, "a"}

TrimTexts == UNION {[1..n -> Chars] : n \in 0..MaxLen}

TrimInit ==
    /\ trim_txt = <<>>
    /\ trim_ret = <<>>
    /\ trim_pc = "ready"

MaxOf(S) == CHOOSE x \in S : \A y \in S : y <= x

\* txt.rfind(ch): the highest index of ch, counted from 0, or -1.
RFind(txt, ch) == MaxOf({-1} \cup {i - 1 : i \in {j \in 1..Len(txt) : txt[j] = ch}})

\* max(txt.rfind("."), txt.rfind("!"), txt.rfind("?"))
LastPunc(txt) == MaxOf({RFind(txt, "."), RFind(txt, "!"), RFind(txt, "?")})

\* if(lastpunc < ln-1): if(txt[lastpunc+1] == '"'): lastpunc = lastpunc + 1
AfterQuote(txt, lastpunc) ==
    IF lastpunc < Len(txt) - 1 /\ txt[lastpunc + 2] = Quote
    THEN lastpunc + 1 ELSE lastpunc

\* if(lastpunc >= 0): txt = txt[:lastpunc+1]
TrimIncompleteSentence(txt) ==
    LET lastpunc == AfterQuote(txt, LastPunc(txt))
    IN  IF lastpunc >= 0 THEN SubSeq(txt, 1, lastpunc + 1) ELSE txt

\* trimincompletesentence(txt)
Trim ==
    /\ trim_pc = "ready"
    /\ trim_ret' = TrimIncompleteSentence(trim_txt)
    /\ trim_pc' = "done"
    /\ UNCHANGED trim_txt
    /\ UNCHANGED <<regvars, histvars, pipevars, genvars, debvars>>

\* ----------------------------------------------------------- specifications
vars == <<regvars, histvars, pipevars, genvars, debvars, trimvars>>

\* The parts a run does not exercise stay as they start.
GenIdle == GenInit /\ max_length = MaxCap

\* The history follows the register.
Track ==
    /\ ever_keys' = ever_keys \cup KeysOf(items)
    /\ append_keys' = IF op' = "append"
                      THEN Append(append_keys, AppendKey(items, next_id))
                      ELSE append_keys
    /\ UNCHANGED init_next_id
    /\ UNCHANGED <<pipevars, genvars, debvars, trimvars>>

\* The history stands still.
Frozen == UNCHANGED <<histvars, pipevars, genvars, debvars, trimvars>>

Init == RegInit /\ PipeInit /\ GenIdle /\ DebInit /\ TrimInit

\* Every operation of the register.
Next ==
    \/ \E v \in Texts : Append_(v) /\ Frozen
    \/ Pop /\ Frozen
    \/ GetFirstKey /\ Frozen
    \/ GetLastKey /\ Frozen
    \/ \E k \in Ids : GetItem(k) /\ Frozen
    \/ \E k \in Ids, v \in Texts : SetItem(k, v) /\ Frozen
    \/ \E k \in Ids : DelItem(k) /\ Frozen
    \/ GetNextId /\ Frozen
    \/ \E x \in 0..(MaxId + 1) : SetNextId(x) /\ Frozen

Spec == Init /\ [][Next]_vars

\* Runs of append and pop alone.
NextAppendPop ==
    \/ \E v \in Texts : Append_(v) /\ Track
    \/ Pop /\ Track

SpecAppendPop == Init /\ [][NextAppendPop]_vars

\* Runs of append, pop and key deletion.
NextAppendPopDel ==
    \/ \E v \in Texts : Append_(v) /\ Track
    \/ Pop /\ Track
    \/ \E k \in Ids : DelItem(k) /\ Track

SpecAppendPopDel == Init /\ [][NextAppendPopDel]_vars

\* Runs of append, pop, set and key deletion: no set_next_id.
NextNoSetNextId ==
    \/ \E v \in Texts : Append_(v) /\ Track
    \/ Pop /\ Track
    \/ \E k \in Ids, v \in Texts : SetItem(k, v) /\ Track
    \/ \E k \in Ids : DelItem(k) /\ Track

SpecNoSetNextId == Init /\ [][NextNoSetNextId]_vars

\* Calls of the warper pipeline, beside a register constructed empty.
InitPipeline == Construct(<<>>) /\ PipeInit /\ GenIdle /\ DebInit /\ TrimInit

NextPipeline ==
    \/ /\ ppc = "idle"
       /\ \E order \in Orders, val \in SUBSET Warpers,
             procs \in ProcessorLists, base \in RawScores :
               PipeCall(order, val, procs, base)
    \/ \E outcome \in StageOutcomes : WarperStep(outcome)
    \/ WarpersReturn
    \/ \E outcome \in StageOutcomes : ProcessorStep(outcome)
    \/ PipeReturn

SpecPipeline == InitPipeline /\ [][NextPipeline]_vars

\* Prompts given as token lists.
ListPrompts == {p \in Prompts : p.kind = "list"}

\* Loads, unloads and unseeded _raw_generate calls of one backend.
InitGenerate == Construct(<<>>) /\ PipeInit /\ GenInit /\ DebInit /\ TrimInit

NextGenerate ==
    \/ /\ gpc = "idle"
       /\ \E cfg \in BadWordConfigs : Load(cfg)
    \/ Unload
    \/ /\ gpc = "idle"
       /\ \E p \in ListPrompts, max_new \in 0..MaxNew, single_line \in BOOLEAN,
             batch_count \in BatchCounts :
               GenBegin(p, max_new, single_line, <<>>, batch_count)
    \/ \E outcome \in DecodeOutcomes : GenDecode(outcome)

SpecGenerate == InitGenerate /\ [][NextGenerate]_vars

\* Seeded and unseeded _raw_generate calls, with other users of the random
\* source.
InitSeed == Construct(<<>>) /\ PipeInit /\ GenIdle /\ DebInit /\ TrimInit

NextSeed ==
    \/ /\ gpc = "idle"
       /\ \E cfg \in BadWordConfigs : Load(cfg)
    \/ /\ gpc = "idle"
       /\ \E p \in ListPrompts, max_new \in 0..MaxNew, seed \in SeedArgs :
               GenBegin(p, max_new, FALSE, seed, 1)
    \/ RngConsume
    \/ \E outcome \in DecodeOutcomes : GenDecode(outcome)

SpecSeed == InitSeed /\ [][NextSeed]_vars

\* _raw_generate calls with prompts of every kind.
NextMaxLength ==
    \/ /\ gpc = "idle"
       /\ \E cfg \in BadWordConfigs : Load(cfg)
    \/ /\ gpc = "idle"
       /\ \E p \in Prompts, max_new \in 0..MaxNew :
               GenBegin(p, max_new, FALSE, <<>>, 1)
    \/ \E outcome \in DecodeOutcomes : GenDecode(outcome)

SpecMaxLength == InitGenerate /\ [][NextMaxLength]_vars

\* Calls of one debounced function from two threads.
InitDebounce == Construct(<<>>) /\ PipeInit /\ GenIdle /\ DebInit /\ TrimInit

NextDebounce ==
    \/ \E th \in Threads, a \in CallArgs : DebCall(th, a)
    \/ \E th \in Threads : DebCancel(th)
    \/ \E th \in Threads : DebAssign(th)
    \/ \E th \in Threads : DebStart(th)
    \/ \E i \in 1..Len(timers) : TimerWake(i)
    \/ \E i \in 1..Len(timers) : TimerRun(i)
    \/ Tick

SpecDebounce == InitDebounce /\ [][NextDebounce]_vars

\* trimincompletesentence on every text up to a length.
InitTrim ==
    /\ Construct(<<>>) /\ PipeInit /\ GenIdle /\ DebInit
    /\ trim_txt \in TrimTexts
    /\ trim_ret = <<>>
    /\ trim_pc = "ready"

NextTrim == Trim

SpecTrim == InitTrim /\ [][NextTrim]_vars

\* ------------------------------------------------------------------ claims
LastAppendKey == append_keys[Len(append_keys)]

\* C1: in runs of append and pop, the Nth append stores its text under the
\* key (next_id after construction) + N - 1, and the keys of successive
\* appends strictly increase however many pops come between them.
C1_NthAppendKey ==
    /\ \A n \in 1..Len(append_keys) : append_keys[n] = init_next_id + n - 1
    /\ \A m, n \in 1..Len(append_keys) : m < n => append_keys[m] < append_keys[n]
    /\ op = "append" =>
          /\ HasKey(items, LastAppendKey)
          /\ DictGet(items, LastAppendKey) = arg[1]

\* C1's case: a register built empty, two appends with a pop between them.
C1_Witness ==
    /\ op = "append"
    /\ init_next_id = 0
    /\ Len(append_keys) = 2
    /\ Len(items) = 1

\* C2: in runs of append, pop and key deletion, the id append gives a new
\* chunk was never the id of a chunk before.
C2_NoIdReuse ==
    op = "append" => LastAppendKey \notin ever_keys

\* C3: with no set_next_id call, next_id is at least 1 + the largest id that
\* has ever been a key, and each append raises next_id by exactly 1.
C3_NextIdAboveEveryKey ==
    /\ \A k \in ever_keys \cup KeysOf(items) : next_id >= 1 + k
    /\ op = "append" => next_id = pre_next_id + 1

\* C4: append adds exactly one entry and places it last: the number of
\* entries grows by 1, last_key is the id append used, get of that id is the
\* text, and every other entry keeps its value and place.
C4_AppendAddsLast ==
    op = "append" =>
        /\ Len(items) = Len(pre_items) + 1
        /\ LastKey(items) = pre_next_id
        /\ HasKey(items, pre_next_id) /\ DictGet(items, pre_next_id) = arg[1]
        /\ SubSeq(items, 1, Len(pre_items)) = pre_items

\* C5: pop on a non-empty register removes exactly the entry that is last in
\* insertion order, returns its text, and leaves the other entries, their
\* order and next_id as they were.
C5_PopRemovesLast ==
    (op = "pop" /\ pre_items # <<>>) =>
        /\ err = ""
        /\ ret = <<pre_items[Len(pre_items)].v>>
        /\ items = SubSeq(pre_items, 1, Len(pre_items) - 1)
        /\ next_id = pre_next_id

\* C5's case: the popped entry was last in order but not the highest id.
C5_Witness ==
    /\ op = "pop"
    /\ err = ""
    /\ Len(pre_items) >= 2
    /\ \E i \in 1..Len(items) : items[i].k > pre_items[Len(pre_items)].k

\* C6: pop on an empty register and get of a key that is not live fail with
\* an error, and leave the entries and next_id as they were.
C6_ErrorsChangeNothing ==
    /\ (op = "pop" /\ pre_items = <<>>) =>
          /\ err = "KeyError" /\ ret = <<>>
          /\ items = pre_items /\ next_id = pre_next_id
    /\ (op = "get" /\ ~HasKey(pre_items, arg[1])) =>
          /\ err = "KeyError" /\ ret = <<>>
          /\ items = pre_items /\ next_id = pre_next_id

\* C6's case: a pop that found the register empty.
C6_Witness ==
    /\ op = "pop"
    /\ pre_items = <<>>
    /\ err = "KeyError"
    /\ next_id > 0

\* C7: first_key and last_key never fail: -1 on an empty register, else the
\* key first (last) in insertion order; neither changes the register.
C7_EndKeys ==
    /\ op = "get_first_key" =>
          /\ err = ""
          /\ ret = <<IF pre_items = <<>> THEN -1 ELSE pre_items[1].k>>
          /\ items = pre_items /\ next_id = pre_next_id
    /\ op = "get_last_key" =>
          /\ err = ""
          /\ ret = <<IF pre_items = <<>> THEN -1 ELSE pre_items[Len(pre_items)].k>>
          /\ items = pre_items /\ next_id = pre_next_id

\* C7's case: first_key asked of a register with no entries.
C7_Witness ==
    /\ op = "get_first_key"
    /\ items = <<>>
    /\ ret = <<-1>>
    /\ next_id > 0

\* C8: set(key, text) never changes next_id: afterwards get(key) is text,
\* every other entry is unchanged, a live key keeps its place and a new key
\* is last.
C8_SetFrame ==
    op = "set" =>
        /\ err = ""
        /\ next_id = pre_next_id
        /\ HasKey(items, arg[1]) /\ DictGet(items, arg[1]) = arg[2]
        /\ HasKey(pre_items, arg[1]) =>
              /\ Len(items) = Len(pre_items)
              /\ \A i \in 1..Len(items) :
                    /\ items[i].k = pre_items[i].k
                    /\ items[i].k # arg[1] => items[i].v = pre_items[i].v
        /\ ~HasKey(pre_items, arg[1]) =>
              items = Append(pre_items, [k |-> arg[1], v |-> arg[2]])

\* C8's case: a set at a new key at or above next_id.
C8_Witness ==
    /\ op = "set"
    /\ ~HasKey(pre_items, arg[1])
    /\ arg[1] >= pre_next_id
    /\ Len(items) >= 2

\* The stages one call has to apply, in order: the valid warpers of
\* sampler_order, left to right, then the registered processors.
ExpectedStages ==
    LET ws == SelectSeq([i \in 1..Len(sampler_order) |-> FromId(sampler_order[i])],
                        LAMBDA w : w \in valid)
    IN  [i \in 1..Len(ws) |-> <<"warper", ws[i]>>]
        \o [i \in 1..Len(logits_processors) |-> <<"processor", logits_processors[i]>>]

AppliedStages == [i \in 1..Len(plog) |-> <<plog[i].kind, plog[i].stage>>]

NumValidWarpers ==
    Cardinality({i \in 1..Len(sampler_order) : FromId(sampler_order[i]) \in valid})

AllInvalid == \A i \in 1..Len(sampler_order) : FromId(sampler_order[i]) \notin valid

\* C9: one pipeline call applies the valid warpers in the left-to-right order
\* of sampler_order, each occurrence once, each stage fed the output of the
\* stage before it, and applies every processor, in registration order, only
\* after the last warper: none before or between warpers.
C9_StageOrder ==
    /\ Len(AppliedStages) <= Len(ExpectedStages)
    /\ AppliedStages = SubSeq(ExpectedStages, 1, Len(AppliedStages))
    /\ \A i \in 1..Len(plog) : plog[i].in = IF i = 1 THEN raw ELSE plog[i - 1].out
    /\ ppc = "processors" => Len(plog) >= NumValidWarpers
    /\ ppc = "returned" =>
          /\ AppliedStages = ExpectedStages
          /\ result = IF plog = <<>> THEN raw ELSE plog[Len(plog)].out

\* C9's case: a call that returned after a skipped warper, an applied warper
\* and two processors.
C9_Witness ==
    /\ ppc = "returned"
    /\ Len(sampler_order) >= 2
    /\ NumValidWarpers = 1
    /\ Len(logits_processors) >= 2
    /\ Len(plog) >= 3

\* C10: a warper whose value_is_valid() is false is never applied and does
\* not alter the scores; with sampler_order empty or every listed warper
\* invalid, the processors are handed the raw scores, and with no processor
\* registered the call returns the raw scores and raises nothing.
C10_InvalidWarpersNoOp ==
    /\ \A i \in 1..Len(plog) : plog[i].kind = "warper" => plog[i].stage \in valid
    /\ ~scores.is_none =>
          \A i \in 1..Len(scores.trace) :
              scores.trace[i] \in Warpers => scores.trace[i] \in valid
    /\ (AllInvalid /\ ppc = "warpers") => scores = raw
    /\ (AllInvalid /\ (ppc \in {"processors", "returned"} \/ blame \in Processors)) =>
          warped = raw
    /\ (AllInvalid /\ logits_processors = <<>>) =>
          /\ ppc # "raised"
          /\ ppc = "returned" => result = raw

\* C10's case: a call whose warpers were all invalid, with no processor,
\* has returned.
C10_Witness ==
    /\ ppc = "returned"
    /\ Len(sampler_order) >= 2
    /\ AllInvalid
    /\ logits_processors = <<>>
    /\ result = raw

\* C11: when an applied stage (a warper or a processor) returns None, the
\* call fails at once with an error naming that stage: no later stage is
\* invoked with None and no scores are returned.
C11_NoneAborts ==
    /\ \A i \in 1..Len(plog) :
          /\ ~plog[i].in.is_none
          /\ plog[i].out.is_none =>
                /\ i = Len(plog)
                /\ ppc = "raised"
                /\ blame = plog[i].stage
    /\ ppc = "raised" =>
          /\ plog # <<>> /\ plog[Len(plog)].out.is_none
          /\ result = NoScores
    /\ ppc = "returned" => ~result.is_none

\* C11's case: the first of two processors returned None after a warper had
\* been applied; the second processor was not invoked.
C11_Witness ==
    /\ ppc = "raised"
    /\ blame \in Processors
    /\ idx < Len(logits_processors)
    /\ Len(plog) >= 2
    /\ plog[1].kind = "warper"

\* C12: the scores a call returns have the shape of the raw scores: when a
\* stage returns a tensor of another shape the call halts at once with an
\* error naming that stage, and the tensor is neither passed on nor returned.
C12_ShapeKept ==
    /\ \A i \in 1..Len(plog) :
          /\ plog[i].in.same_shape
          /\ (~plog[i].out.is_none /\ ~plog[i].out.same_shape) =>
                /\ i = Len(plog)
                /\ ppc = "raised"
                /\ blame = plog[i].stage
    /\ ppc = "returned" => result.same_shape

\* C13: the bad words handed to the decode loop are the configured ones,
\* followed by the newline token exactly when the call is single_line, and
\* the configured list is as it was after every call, so that a later call
\* that is not single_line does not suppress the newline.
C13_BadWords ==
    /\ badwordsids = configured
    /\ gcall.decode_calls > 0 =>
         gcall.decode_args.bad_words_ids =
           IF gcall.single_line
           THEN Append(gcall.configured, NewlineWord)
           ELSE gcall.configured

\* A call that is not single_line has returned after a single_line call
\* reached the decode loop, with bad words configured.
C13_Witness ==
    /\ seen_single
    /\ gcall.status = "returned"
    /\ ~gcall.single_line
    /\ gcall.configured # <<>>
    /\ gcall.decode_args.bad_words_ids = gcall.configured

\* What the decode loop is called with, from the arguments and the settings
\* of a call.
ArgsOfCall(c) ==
    [gen_in |-> GenIn(c.prompt),
     do_sample |-> TRUE,
     max_length |-> MaxLengthArg(c.prompt, c.max_new, max_length),
     repetition_penalty |-> 1,
     bad_words_ids |-> EffectiveBadWords(c.configured, AdditionalBadWords(c.single_line)),
     use_cache |-> TRUE,
     num_return_sequences |-> c.batch_count]

\* C14: a call that is given a seed, and during which nothing else draws
\* from the random source between the seeding and the sampling, returns the
\* output the decode loop gives from the freshly seeded source for the
\* call's prompt and settings, whatever the random state the call started
\* from: two such calls with the same seed, prompt and settings return the
\* same output.
C14_SeedDeterminism ==
    (gcall.status = "returned" /\ gcall.seed # <<>> /\ ~gcall.disturbed) =>
        gcall.result.out_batches = DecodeOut(SeedRng(gcall.seed[1]), ArgsOfCall(gcall))

\* A seeded, undisturbed call has returned that started from a random source
\* in another state than the one its seed gives.
C14_Witness ==
    /\ gcall.status = "returned"
    /\ gcall.seed # <<>>
    /\ ~gcall.disturbed
    /\ gcall.pre_rng.draws > 0
    /\ gcall.pre_rng.seed # gcall.seed[1]
    /\ gcall.result.out_batches.rng = SeedRng(gcall.seed[1])

\* C15: a call made with no model loaded (never loaded, or unloaded) ends in
\* an error without the decode loop being called; a call whose decode loop
\* raises ends in that error; a call that ends in an error returns no
\* GenerationResult; and no call calls the decode loop more than once.
C15_FailuresSurface ==
    /\ gcall.decode_calls <= 1
    /\ (gpc = "idle" /\ gcall.status # "none" /\ gcall.model_state # "loaded") =>
         /\ gcall.status = "raised"
         /\ gcall.err = "AttributeError"
         /\ gcall.decode_calls = 0
    /\ gcall.status = "raised" =>
         /\ ~gcall.result.is_result
         /\ gcall.decode_calls = 1 => gcall.err = "DecodeError"
    /\ gcall.status = "returned" =>
         /\ gcall.result.is_result
         /\ gcall.decode_calls = 1
         /\ gcall.model_state = "loaded"

\* A call made after unload has ended in an error, past the seeding.
C15_Witness ==
    /\ gpc = "idle"
    /\ gcall.status = "raised"
    /\ gcall.model_state = "unloaded"
    /\ ~gcall.single_line
    /\ gcall.decode_calls = 0

\* C16: the maximum length the decode loop is called with is the smaller of
\* the number of prompt tokens plus max_new and the global cap, for a prompt
\* given as a list and for a prompt given as a tensor.
C16_MaxLength ==
    gcall.decode_calls > 0 =>
        gcall.decode_args.max_length =
            Min(NumTokens(gcall.prompt) + gcall.max_new, max_length)

\* C17: whatever the interleaving, the function runs only when no call was
\* made in the wait before the run, no two runs follow the same burst of
\* calls, and a run uses the arguments of the last call made before it.
C17_Debounced ==
    /\ \A r \in 1..Len(runs) :
          /\ runs[r].ncalls > 0
          /\ \A c \in 1..runs[r].ncalls :
                 calls[c].time + DebounceWait <= runs[r].time
          /\ runs[r].args = calls[runs[r].ncalls].args
    /\ \A r1, r2 \in 1..Len(runs) :
          runs[r1].ncalls = runs[r2].ncalls => r1 = r2

IsPrefix(a, b) == Len(a) <= Len(b) /\ a = SubSeq(b, 1, Len(a))

PuncAt(txt) == {i \in 1..Len(txt) : txt[i] \in {".", "!", "?"}}

\* C18: the result is a prefix of the text; it ends at the last '.', '!' or
\* '?', or at the double quote right behind that character; a text with none
\* of the three characters is returned unchanged.
C18_Trimmed ==
    trim_pc = "done" =>
        /\ IsPrefix(trim_ret, trim_txt)
        /\ IF PuncAt(trim_txt) # {}
           THEN LET last == MaxOf(PuncAt(trim_txt))
                    end == IF last < Len(trim_txt) /\ trim_txt[last + 1] = Quote
                           THEN last + 1 ELSE last
                IN  trim_ret = SubSeq(trim_txt, 1, end)
           ELSE trim_ret = trim_txt

====
